---------------------------- MODULE Spec2Model ----------------------------
(***************************************************************************)
(* git-ghost, pkg/ghost/git/file.go: the diff-bundle and diff-patch        *)
(* writers and appliers.                                                   *)
(*                                                                         *)
(* file.go holds two definitions of four of its functions.  The second     *)
(* definitions (lines 173-267) keep the source's names here; the first     *)
(* definitions (lines 17-142) carry the suffix 1.  A caller runs one call  *)
(* at a time; every call is a sequence of steps around the external git    *)
(* processes it starts, and pc is the call's position.                     *)
(*                                                                         *)
(* Contents are abstract: a tree maps a file to a content number (0 on an  *)
(* untracked path: no such file), an artifact file is a sequence of        *)
(* tokens, one per diff section (patch artifact) or per commit mail        *)
(* (bundle artifact).                                                      *)
(***************************************************************************)
EXTENDS Integers, Sequences, FiniteSets, TLC

VARIABLES
    pc,      \* position of the running call: "idle" between calls
    call,    \* the running (or, when idle, the last) call and its arguments
    ret,     \* the error the last call returned
    errs,    \* the local variable errs of the running call
    idx,     \* the appender's loop index into nonIndexedFilepaths
    proc,    \* the external process of the running call
    pipe,    \* the stdout pipe of the first definitions' writers
    handles, \* open handles of this subsystem: "f" (artifact), "reader" (pipe)
    fs,      \* content of the artifact files, by path
    exists,  \* the artifact paths that exist
    tree,    \* the target working tree (dir of the appliers)
    am,      \* the mailbox-apply session of the target tree (.git/rebase-apply)
    trace,   \* the external commands the running call has invoked, in order
    pre,     \* tree, fs and exists as they were when the running call started
    ncalls   \* number of calls made

vars == <<pc, call, ret, errs, idx, proc, pipe, handles, fs, exists, tree, am,
          trace, pre, ncalls>>

(* ------------------------------ bounds -------------------------------- *)
MaxContent == 1     \* file contents are 0..MaxContent
MaxRev == 2         \* revisions are 0..MaxRev
MaxPaths == 3       \* longest nonIndexedFilepaths list
MaxCalls == 2       \* calls made in one behaviour

(* --------------------------- the git model ---------------------------- *)
TrackedSeq == <<"a", "b">>
Tracked == {"a", "b"}
UntrackedSeq == <<"u", "v", "w", "x">>
Untracked == {"u", "v", "w", "x"}
AllFiles == Tracked \cup Untracked
Contents == 0..MaxContent
Revs == 0..MaxRev
BundlePath == "bundle"
PatchPath == "patch"
Paths == {BundlePath, PatchPath}

ZeroTree == [f \in AllFiles |-> 0]

\* commit r (r >= 1) rewrites one tracked file
FileOf(r) == IF r % 2 = 1 THEN "a" ELSE "b"
CommitContent(r) == 1 + (((r - 1) \div 2) % MaxContent)

RECURSIVE Hist(_)
Hist(r) == IF r = 0 THEN ZeroTree
           ELSE [Hist(r - 1) EXCEPT ![FileOf(r)] = CommitContent(r)]

\* the sections "git diff --binary" prints for the tracked files that differ
DiffSeq(from, to) ==
    LET hs == [i \in 1..Len(TrackedSeq) |->
                 [k |-> "diff", f |-> TrackedSeq[i],
                  old |-> from[TrackedSeq[i]], new |-> to[TrackedSeq[i]]]]
    IN SelectSeq(hs, LAMBDA h : h.old # h.new)

\* "git log -p --reverse --pretty=email --first-parent a..b": one mail per
\* commit of (a, b], oldest first
LogRange(a, b) ==
    IF b > a
    THEN [i \in 1..(b - a) |->
            [k |-> "mail", hunks |-> DiffSeq(Hist(a + i - 1), Hist(a + i))]]
    ELSE <<>>

\* "git diff --no-index /dev/null p": the section that adds p
NoIndexSection(p) == [k |-> "diff", f |-> p, old |-> 0, new |-> 1]

\* hunks applied in order; a hunk applies where the file holds its preimage
RECURSIVE ApplyHunks(_, _)
ApplyHunks(hs, t) ==
    IF hs = <<>> THEN [ok |-> TRUE, tree |-> t]
    ELSE LET h == Head(hs)
         IN IF t[h.f] = h.old
            THEN ApplyHunks(Tail(hs), [t EXCEPT ![h.f] = h.new])
            ELSE [ok |-> FALSE, tree |-> t]

IsPatch(content) == content # <<>> /\ \A i \in 1..Len(content) : content[i].k = "diff"
IsMbox(content) == content # <<>> /\ \A i \in 1..Len(content) : content[i].k = "mail"

\* "git apply file": all sections or none; no section is not a patch
GitApply(content, t) ==
    IF IsPatch(content) /\ ApplyHunks(content, t).ok
    THEN ApplyHunks(content, t)
    ELSE [ok |-> FALSE, tree |-> t]

\* one mail of a "git am" series: a mail without a diff does not apply
MailApplies(m, t) == m.hunks # <<>> /\ ApplyHunks(m.hunks, t).ok

NoSession == [active |-> FALSE, orig |-> ZeroTree]

(* ------------------------------ errors -------------------------------- *)
NilErr == [k |-> "nil"]
ExitError(cmd, arg, code) == [k |-> "exit", cmd |-> cmd, arg |-> arg, code |-> code]
PathError(op) == [k |-> "io", op |-> op]

\* errors.WithStack: nil stays nil, a GitGhostError is returned as it is
WithStack(e) ==
    IF e = NilErr THEN NilErr
    ELSE IF e.k = "gg" THEN e
    ELSE [k |-> "gg", cause |-> e]

\* multierror.Append(errs, e) for a non-nil e
MultiAppend(es, e) ==
    IF es = NilErr THEN [k |-> "multi", errs |-> <<e>>]
    ELSE [k |-> "multi", errs |-> Append(es.errs, e)]

\* GitGhostError.Cause
Cause(e) == IF e.k = "gg" THEN e.cause ELSE e

\* util.GetExitCode
GetExitCode(e) == IF e.k = "exit" THEN e.code ELSE -1

\* the ordered causes an error carries
Causes(e) ==
    LET c == Cause(e)
    IN IF c = NilErr THEN <<>>
       ELSE IF c.k = "multi" THEN c.errs
       ELSE <<c>>

(* --------------------------- process runner --------------------------- *)
Running == -2       \* the exit status of a process that has not ended
NotStarted == -1    \* util.GetExitCode of a failure that is no exit status

NoProc == [cmd |-> "none", arg |-> "", st |-> "none", out |-> <<>>, todo |-> <<>>,
           ok |-> 0, code |-> Running]

\* a process that could not be started
NoStart(cmd, arg) ==
    [cmd |-> cmd, arg |-> arg, st |-> "nostart", out |-> <<>>, todo |-> <<>>,
     ok |-> 0, code |-> NotStarted]

\* a started process on the argument arg: out is what it has still to print,
\* todo the mails it has still to apply, ok its exit status when it meets no
\* failure
Started(cmd, arg, out, todo, ok) ==
    [cmd |-> cmd, arg |-> arg, st |-> "run", out |-> out, todo |-> todo,
     ok |-> ok, code |-> Running]

\* a process that ended with the status code
Exited(p, code) == [p EXCEPT !.st = "exited", !.code = code]

FailCodes == {1, 128}

\* the exit statuses a printing process may end with in its present state:
\* a failure at any point, its regular status once all output is printed
ExitCodes(p) ==
    IF p.out = <<>>
    THEN {p.ok} \cup (IF p.cmd = "noindex" THEN {128} ELSE FailCodes)
    ELSE IF p.cmd = "noindex" THEN {128} ELSE FailCodes

\* util.JustRunCmd's result once the process p is over (cmd.Run has returned)
JustRunCmd(p) == IF p.code = 0 THEN NilErr ELSE ExitError(p.cmd, p.arg, p.code)

Over(p) == p.st \in {"exited", "nostart"}

NoCall == [fn |-> "none", ver |-> 0, path |-> PatchPath, paths |-> <<>>,
           from |-> 0, to |-> 0, work |-> ZeroTree]

\* the state a call starts in: the tree, whether a mailbox apply is in
\* progress in it, the files, and the call before it when that was a writer
\* which returned success
Snapshot ==
    [tree |-> tree, am |-> am.active, fs |-> fs, exists |-> exists,
     made |-> IF call.fn \in {"CreateDiffBundleFile", "CreateDiffPatchFile"}
                 /\ ret = NilErr
              THEN call ELSE NoCall]

NewCall(fn, ver, path) ==
    [fn |-> fn, ver |-> ver, path |-> path, paths |-> <<>>, from |-> 0, to |-> 0,
     work |-> ZeroTree]

\* the call starts: the frame of every call's first step
Enter(c) ==
    /\ pc = "idle" /\ ncalls < MaxCalls
    /\ call' = c
    /\ errs' = NilErr
    /\ pre' = Snapshot
    /\ ncalls' = ncalls + 1

\* the running call invokes the process p, as its first command or a later one
Invoke(first, p) ==
    /\ proc' = p
    /\ trace' = Append(IF first THEN <<>> ELSE trace,
                       [cmd |-> p.cmd, arg |-> p.arg, code |-> p.code])

\* the running process ends with the status code
End(code) ==
    /\ proc' = Exited(proc, code)
    /\ trace' = [trace EXCEPT ![Len(trace)].code = code]

\* the call returns e
Return(e) ==
    /\ pc' = "idle"
    /\ ret' = e
    /\ proc' = NoProc

(* ------------------------------- Init --------------------------------- *)
Init ==
    /\ pc = "idle"
    /\ call = NoCall
    /\ ret = NilErr
    /\ errs = NilErr
    /\ idx = 0
    /\ proc = NoProc
    /\ pipe = <<>>
    /\ handles = {}
    /\ fs = [p \in Paths |-> <<>>]
    /\ exists = {}
    /\ tree \in {[f \in AllFiles |-> IF f \in Tracked THEN w[f] ELSE 0] :
                    w \in [Tracked -> Contents]}
    /\ am = NoSession
    /\ trace = <<>>
    /\ pre = [tree |-> ZeroTree, am |-> FALSE, fs |-> [p \in Paths |-> <<>>],
              exists |-> {}, made |-> NoCall]
    /\ ncalls = 0

(* ------------------------- git am, git am --abort --------------------- *)
\* the "git am file" process as it starts: it refuses when a session is in
\* progress or the file is no mailbox, and opens a session otherwise
AmProcess(content) ==
    IF am.active \/ ~IsMbox(content)
    THEN Exited(Started("am", BundlePath, <<>>, <<>>, 0), 128)
    ELSE Started("am", BundlePath, <<>>, content, 0)

\* the session after "git am" was invoked as process p
AmSession(p) == IF p.st = "run" THEN [active |-> TRUE, orig |-> tree] ELSE am

\* git am applies the next mail of the series, or stops at it
GitAmStep ==
    /\ proc.cmd = "am" /\ proc.st = "run"
    /\ LET m == Head(proc.todo)
       IN IF MailApplies(m, tree)
          THEN /\ tree' = ApplyHunks(m.hunks, tree).tree
               /\ IF Len(proc.todo) = 1
                  THEN End(0) /\ am' = NoSession
                  ELSE /\ proc' = [proc EXCEPT !.todo = Tail(proc.todo)]
                       /\ UNCHANGED <<am, trace>>
          ELSE /\ End(128)
               /\ UNCHANGED <<tree, am>>
    /\ UNCHANGED <<pc, call, ret, errs, idx, pipe, handles, fs, exists,
                   pre, ncalls>>

\* git am --abort: without a session it fails; with one it restores the
\* tree the session started from, or fails and leaves the tree as it is
GitAmAbortStep ==
    /\ proc.cmd = "abort" /\ proc.st = "run"
    /\ \/ /\ am.active
          /\ tree' = am.orig
          /\ am' = NoSession
          /\ End(0)
       \/ /\ End(128)
          /\ UNCHANGED <<tree, am>>
    /\ UNCHANGED <<pc, call, ret, errs, idx, pipe, handles, fs, exists,
                   pre, ncalls>>

(* ------------------- ApplyDiffBundleFile (lines 189-210) -------------- *)
\* what the call returns: errs behind errors.WithStack
ApplyDiffBundleFile_Result(es) == WithStack(es)

\* a slip: the apply failure is logged and not recorded
Mut_ApplyFailureDropped(es, err) == es

\* errs after the apply failed with err
ApplyDiffBundleFile_ApplyFailed(es, err) == MultiAppend(es, err)

\* a slip: errs = resetErr, which drops the apply failure
Mut_AbortOverwrites(es, resetErr) ==
    IF resetErr # NilErr THEN MultiAppend(NilErr, resetErr) ELSE es

\* errs after the abort returned resetErr
ApplyDiffBundleFile_AbortDone(es, resetErr) ==
    IF resetErr # NilErr THEN MultiAppend(es, resetErr) ELSE es

ApplyDiffBundleFile_Call ==
    /\ Enter(NewCall("ApplyDiffBundleFile", 2, BundlePath))
    /\ \E p \in {AmProcess(fs[BundlePath]), NoStart("am", BundlePath)} :
          Invoke(TRUE, p) /\ am' = AmSession(p)
    /\ pc' = "am"
    /\ UNCHANGED <<ret, idx, pipe, handles, fs, exists, tree>>

\* a slip: the failed apply is reported and no abort is run
Mut_NoAbort ==
    /\ pc = "am" /\ call.fn = "ApplyDiffBundleFile" /\ call.ver = 2
    /\ Over(proc)
    /\ LET err == WithStack(JustRunCmd(proc))
       IN /\ errs' = IF err # NilErr THEN ApplyDiffBundleFile_ApplyFailed(errs, err)
                     ELSE errs
          /\ Return(ApplyDiffBundleFile_Result(errs'))
    /\ UNCHANGED <<call, idx, pipe, handles, fs, exists, tree, am, trace, pre, ncalls>>

ApplyDiffBundleFile_AmReturned ==
    /\ pc = "am" /\ call.fn = "ApplyDiffBundleFile" /\ call.ver = 2
    /\ Over(proc)
    /\ LET err == WithStack(JustRunCmd(proc))
       IN IF err # NilErr
          THEN /\ errs' = ApplyDiffBundleFile_ApplyFailed(errs, err)
               /\ \E p \in {Started("abort", "", <<>>, <<>>, 0), NoStart("abort", "")} :
                     Invoke(FALSE, p)
               /\ pc' = "abort"
               /\ UNCHANGED ret
          ELSE /\ Return(ApplyDiffBundleFile_Result(errs))
               /\ UNCHANGED <<errs, trace>>
    /\ UNCHANGED <<call, idx, pipe, handles, fs, exists, tree, am, pre, ncalls>>

ApplyDiffBundleFile_AbortReturned ==
    /\ pc = "abort" /\ call.fn = "ApplyDiffBundleFile" /\ call.ver = 2
    /\ Over(proc)
    /\ LET resetErr == WithStack(JustRunCmd(proc))
       IN /\ errs' = ApplyDiffBundleFile_AbortDone(errs, resetErr)
          /\ Return(ApplyDiffBundleFile_Result(errs'))
    /\ UNCHANGED <<call, idx, pipe, handles, fs, exists, tree, am, trace,
                   pre, ncalls>>

(* ------------------- ApplyDiffBundleFile (lines 67-88) ---------------- *)
\* what the call returns: errs as it is
ApplyDiffBundleFile1_Result(es) == es

ApplyDiffBundleFile1_ApplyFailed(es, err) == MultiAppend(es, err)

ApplyDiffBundleFile1_AbortDone(es, resetErr) ==
    IF resetErr # NilErr THEN MultiAppend(es, resetErr) ELSE es

ApplyDiffBundleFile1_Call ==
    /\ Enter(NewCall("ApplyDiffBundleFile", 1, BundlePath))
    /\ \E p \in {AmProcess(fs[BundlePath]), NoStart("am", BundlePath)} :
          Invoke(TRUE, p) /\ am' = AmSession(p)
    /\ pc' = "am"
    /\ UNCHANGED <<ret, idx, pipe, handles, fs, exists, tree>>

ApplyDiffBundleFile1_AmReturned ==
    /\ pc = "am" /\ call.fn = "ApplyDiffBundleFile" /\ call.ver = 1
    /\ Over(proc)
    /\ LET err == JustRunCmd(proc)
       IN IF err # NilErr
          THEN /\ errs' = ApplyDiffBundleFile1_ApplyFailed(errs, err)
               /\ \E p \in {Started("abort", "", <<>>, <<>>, 0), NoStart("abort", "")} :
                     Invoke(FALSE, p)
               /\ pc' = "abort"
               /\ UNCHANGED ret
          ELSE /\ Return(ApplyDiffBundleFile1_Result(errs))
               /\ UNCHANGED <<errs, trace>>
    /\ UNCHANGED <<call, idx, pipe, handles, fs, exists, tree, am, pre, ncalls>>

ApplyDiffBundleFile1_AbortReturned ==
    /\ pc = "abort" /\ call.fn = "ApplyDiffBundleFile" /\ call.ver = 1
    /\ Over(proc)
    /\ LET resetErr == JustRunCmd(proc)
       IN /\ errs' = ApplyDiffBundleFile1_AbortDone(errs, resetErr)
          /\ Return(ApplyDiffBundleFile1_Result(errs'))
    /\ UNCHANGED <<call, idx, pipe, handles, fs, exists, tree, am, trace,
                   pre, ncalls>>

(* ------------------ git log, git diff, git apply ---------------------- *)
\* where the running process prints: the artifact file it inherited as
\* stdout, or the pipe the first definitions' writers read from
ToPipe == call.ver = 1 /\ call.fn \in {"CreateDiffBundleFile", "CreateDiffPatchFile"}

\* git log / git diff prints its next section
GitWriteStep ==
    /\ proc.st = "run" /\ proc.cmd \in {"log", "diff", "noindex"}
    /\ proc.out # <<>>
    /\ proc' = [proc EXCEPT !.out = Tail(proc.out)]
    /\ IF ToPipe
       THEN pipe' = Append(pipe, Head(proc.out)) /\ UNCHANGED fs
       ELSE fs' = [fs EXCEPT ![call.path] = Append(@, Head(proc.out))]
            /\ UNCHANGED pipe
    /\ UNCHANGED <<pc, call, ret, errs, idx, handles, exists, tree, am,
                   trace, pre, ncalls>>

\* git log / git diff ends
GitExit ==
    /\ proc.st = "run" /\ proc.cmd \in {"log", "diff", "noindex"}
    /\ \E code \in ExitCodes(proc) : End(code)
    /\ UNCHANGED <<pc, call, ret, errs, idx, pipe, handles, fs, exists, tree, am, pre, ncalls>>

\* git apply applies every section of the file to the tree, or none
GitApplyStep ==
    /\ proc.st = "run" /\ proc.cmd = "apply"
    /\ LET r == GitApply(fs[call.path], tree)
       IN /\ tree' = r.tree
          /\ End(IF r.ok THEN 0 ELSE IF IsPatch(fs[call.path]) THEN 1 ELSE 128)
    /\ UNCHANGED <<pc, call, ret, errs, idx, pipe, handles, fs, exists,
                   am, pre, ncalls>>

\* a slip: the open without O_TRUNC, the earlier content stays
Mut_OpenNoTrunc(path) ==
    /\ exists' = exists \cup {path}
    /\ fs' = fs

\* os.OpenFile(filepath, O_WRONLY|O_CREATE|O_TRUNC): the file after a
\* successful open
OpenTrunc(path) ==
    /\ exists' = exists \cup {path}
    /\ fs' = [fs EXCEPT ![path] = <<>>]

\* the process "git log from..to" / "git diff committish" as it starts
LogProcess(from, to) == Started("log", BundlePath, LogRange(from, to), <<>>, 0)
DiffProcess(committish, w) ==
    Started("diff", PatchPath, DiffSeq(Hist(committish), w), <<>>, 0)

\* the working trees a writer's dir may hold: any content of the tracked files
WorkTrees == {[f \in AllFiles |-> IF f \in Tracked THEN w[f] ELSE 0] :
                w \in [Tracked -> Contents]}

(* ------------------ CreateDiffBundleFile (lines 173-186) -------------- *)
\* the value returned once util.JustRunCmd(cmd) has returned err
CreateDiffBundleFile_Result(err) == WithStack(err)

CreateDiffBundleFile_Call ==
    /\ \E from \in Revs, to \in Revs :
          /\ Enter([NewCall("CreateDiffBundleFile", 2, BundlePath)
                      EXCEPT !.from = from, !.to = to])
          /\ \/ /\ Return(WithStack(PathError("open")))     \* os.OpenFile failed
                /\ trace' = <<>>
                /\ UNCHANGED <<fs, exists, handles>>
             \/ /\ OpenTrunc(BundlePath)
                /\ handles' = {"f"}
                /\ \E p \in {LogProcess(from, to), NoStart("log", BundlePath)} :
                      Invoke(TRUE, p)
                /\ pc' = "log"
                /\ UNCHANGED ret
    /\ UNCHANGED <<idx, pipe, tree, am>>

\* a slip: the return without the deferred f.Close
Mut_NoClose ==
    /\ pc = "log" /\ call.fn = "CreateDiffBundleFile" /\ call.ver = 2
    /\ Over(proc)
    /\ Return(CreateDiffBundleFile_Result(JustRunCmd(proc)))
    /\ UNCHANGED <<call, errs, idx, pipe, handles, fs, exists, tree, am, trace,
                   pre, ncalls>>

CreateDiffBundleFile_Returned ==
    /\ pc = "log" /\ call.fn = "CreateDiffBundleFile" /\ call.ver = 2
    /\ Over(proc)
    /\ Return(CreateDiffBundleFile_Result(JustRunCmd(proc)))
    /\ handles' = {}                                        \* deferred f.Close
    /\ UNCHANGED <<call, errs, idx, pipe, fs, exists, tree, am, trace,
                   pre, ncalls>>

(* ------------------ CreateDiffPatchFile (lines 213-223) --------------- *)
CreateDiffPatchFile_Result(err) == WithStack(err)

CreateDiffPatchFile_Call ==
    /\ \E committish \in Revs, w \in WorkTrees :
          /\ Enter([NewCall("CreateDiffPatchFile", 2, PatchPath)
                      EXCEPT !.from = committish, !.work = w])
          /\ \/ /\ Return(WithStack(PathError("open")))     \* os.OpenFile failed
                /\ trace' = <<>>
                /\ UNCHANGED <<fs, exists, handles>>
             \/ /\ OpenTrunc(PatchPath)
                /\ handles' = {"f"}
                /\ \E p \in {DiffProcess(committish, w), NoStart("diff", PatchPath)} :
                      Invoke(TRUE, p)
                /\ pc' = "diff"
                /\ UNCHANGED ret
    /\ UNCHANGED <<idx, pipe, tree, am>>

CreateDiffPatchFile_Returned ==
    /\ pc = "diff" /\ call.fn = "CreateDiffPatchFile" /\ call.ver = 2
    /\ Over(proc)
    /\ Return(CreateDiffPatchFile_Result(JustRunCmd(proc)))
    /\ handles' = {}                                        \* deferred f.Close
    /\ UNCHANGED <<call, errs, idx, pipe, fs, exists, tree, am, trace,
                   pre, ncalls>>

BufLen == 1024      \* len(buf) of the copy loop

(* ------------------ CreateDiffBundleFile (lines 17-64) --------------- *)
\* the first definition pipes the process's stdout and copies it itself
CreateDiffBundleFile1_Call ==
    /\ \E from \in Revs, to \in Revs :
          /\ Enter([NewCall("CreateDiffBundleFile", 1, BundlePath)
                      EXCEPT !.from = from, !.to = to])
          /\ \/ /\ Return(PathError("open"))                \* os.OpenFile failed
                /\ trace' = <<>>
                /\ UNCHANGED <<fs, exists, handles, pipe>>
             \/ /\ OpenTrunc(BundlePath)
                /\ \/ /\ Return(PathError("pipe"))          \* cmd.StdoutPipe failed
                      /\ handles' = {}
                      /\ trace' = <<>>
                      /\ UNCHANGED pipe
                   \/ /\ Invoke(TRUE, NoStart("log", BundlePath))  \* cmd.Start failed
                      /\ pc' = "idle"
                      /\ ret' = ExitError("log", BundlePath, NotStarted)
                      /\ handles' = {}
                      /\ UNCHANGED pipe
                   \/ /\ Invoke(TRUE, LogProcess(from, to))
                      /\ pc' = "read"
                      /\ pipe' = <<>>
                      /\ handles' = {"f", "reader"}
                      /\ UNCHANGED ret
    /\ UNCHANGED <<idx, tree, am>>

\* one turn of the copy loop: n, err := reader.Read(buf), then the write
CreateDiffBundleFile1_Read ==
    /\ pc = "read" /\ call.fn = "CreateDiffBundleFile" /\ call.ver = 1
    /\ \/ /\ pipe # <<>>                                    \* n > 0
          /\ \E n \in 1..(IF Len(pipe) < BufLen THEN Len(pipe) ELSE BufLen) :
                \/ /\ fs' = [fs EXCEPT ![BundlePath] = @ \o SubSeq(pipe, 1, n)]
                   /\ pipe' = SubSeq(pipe, n + 1, Len(pipe))
                   /\ UNCHANGED <<pc, ret, proc, handles>>
                \/ /\ Return(PathError("write"))            \* f.Write failed
                   /\ handles' = {}
                   /\ pipe' = <<>>
                   /\ UNCHANGED fs
       \/ /\ pipe = <<>> /\ Over(proc)                      \* io.EOF: break
          /\ Return(NilErr)
          /\ handles' = {}
          /\ UNCHANGED <<fs, pipe>>
       \/ /\ Return(PathError("read"))                      \* another read error
          /\ handles' = {}
          /\ pipe' = <<>>
          /\ UNCHANGED fs
    /\ UNCHANGED <<call, errs, idx, exists, tree, am, trace, pre, ncalls>>

(* ------------------ CreateDiffPatchFile (lines 91-135) --------------- *)
\* the first definition pipes the process's stdout and copies it itself
CreateDiffPatchFile1_Call ==
    /\ \E committish \in Revs, w \in WorkTrees :
          /\ Enter([NewCall("CreateDiffPatchFile", 1, PatchPath)
                      EXCEPT !.from = committish, !.work = w])
          /\ \/ /\ Return(PathError("open"))                \* os.OpenFile failed
                /\ trace' = <<>>
                /\ UNCHANGED <<fs, exists, handles, pipe>>
             \/ /\ OpenTrunc(PatchPath)
                /\ \/ /\ Return(PathError("pipe"))          \* cmd.StdoutPipe failed
                      /\ handles' = {}
                      /\ trace' = <<>>
                      /\ UNCHANGED pipe
                   \/ /\ Invoke(TRUE, NoStart("diff", PatchPath))  \* cmd.Start failed
                      /\ pc' = "idle"
                      /\ ret' = ExitError("diff", PatchPath, NotStarted)
                      /\ handles' = {}
                      /\ UNCHANGED pipe
                   \/ /\ Invoke(TRUE, DiffProcess(committish, w))
                      /\ pc' = "read"
                      /\ pipe' = <<>>
                      /\ handles' = {"f", "reader"}
                      /\ UNCHANGED ret
    /\ UNCHANGED <<idx, tree, am>>

\* one turn of the copy loop: n, err := reader.Read(buf), then the write
CreateDiffPatchFile1_Read ==
    /\ pc = "read" /\ call.fn = "CreateDiffPatchFile" /\ call.ver = 1
    /\ \/ /\ pipe # <<>>                                    \* n > 0
          /\ \E n \in 1..(IF Len(pipe) < BufLen THEN Len(pipe) ELSE BufLen) :
                \/ /\ fs' = [fs EXCEPT ![PatchPath] = @ \o SubSeq(pipe, 1, n)]
                   /\ pipe' = SubSeq(pipe, n + 1, Len(pipe))
                   /\ UNCHANGED <<pc, ret, proc, handles>>
                \/ /\ Return(PathError("write"))            \* f.Write failed
                   /\ handles' = {}
                   /\ pipe' = <<>>
                   /\ UNCHANGED fs
       \/ /\ pipe = <<>> /\ Over(proc)                      \* io.EOF: break
          /\ Return(NilErr)
          /\ handles' = {}
          /\ UNCHANGED <<fs, pipe>>
       \/ /\ Return(PathError("read"))                      \* another read error
          /\ handles' = {}
          /\ pipe' = <<>>
          /\ UNCHANGED fs
    /\ UNCHANGED <<call, errs, idx, exists, tree, am, trace, pre, ncalls>>

(* ------------------ ApplyDiffPatchFile (lines 250-267) ---------------- *)
\* a slip: the size test inverted
Mut_SizeTestInverted(content) == Len(content) # 0

\* fi.Size() == 0: the empty patch is ignored
ApplyDiffPatchFile_IsEmpty(content) == Len(content) = 0

ApplyDiffPatchFile_Call ==
    /\ Enter(NewCall("ApplyDiffPatchFile", 2, PatchPath))
    /\ \/ /\ Return(WithStack(PathError("stat")))           \* os.Stat failed
          /\ trace' = <<>>
       \/ /\ PatchPath \in exists
          /\ IF ApplyDiffPatchFile_IsEmpty(fs[PatchPath])
             THEN /\ Return(NilErr)                         \* "ignore empty patch"
                  /\ trace' = <<>>
             ELSE /\ \E p \in {Started("apply", PatchPath, <<>>, <<>>, 0),
                                 NoStart("apply", PatchPath)} :
                        Invoke(TRUE, p)
                  /\ pc' = "apply"
                  /\ UNCHANGED ret
    /\ UNCHANGED <<idx, pipe, handles, fs, exists, tree, am>>

ApplyDiffPatchFile_Returned ==
    /\ pc = "apply" /\ call.fn = "ApplyDiffPatchFile" /\ call.ver = 2
    /\ Over(proc)
    /\ Return(WithStack(JustRunCmd(proc)))
    /\ UNCHANGED <<call, errs, idx, pipe, handles, fs, exists, tree, am, trace,
                   pre, ncalls>>

(* ------------------ ApplyDiffPatchFile (lines 138-142) ---------------- *)
ApplyDiffPatchFile1_Call ==
    /\ Enter(NewCall("ApplyDiffPatchFile", 1, PatchPath))
    /\ \E p \in {Started("apply", PatchPath, <<>>, <<>>, 0), NoStart("apply", PatchPath)} :
          Invoke(TRUE, p)
    /\ pc' = "apply"
    /\ UNCHANGED <<ret, idx, pipe, handles, fs, exists, tree, am>>

ApplyDiffPatchFile1_Returned ==
    /\ pc = "apply" /\ call.fn = "ApplyDiffPatchFile" /\ call.ver = 1
    /\ Over(proc)
    /\ Return(JustRunCmd(proc))
    /\ UNCHANGED <<call, errs, idx, pipe, handles, fs, exists, tree, am, trace,
                   pre, ncalls>>

(* --------------- AppendNonIndexedDiffFiles (lines 226-247) ------------ *)
\* the lists of paths a caller passes: the first n untracked paths
PathLists == {SubSeq(UntrackedSeq, 1, n) : n \in 0..MaxPaths}

\* the process "git diff --no-index /dev/null p" as it starts: it prints the
\* section of p and ends with 1, prints nothing and ends with 0, or cannot start
NoIndexProcesses(p) ==
    {Started("noindex", p, <<NoIndexSection(p)>>, <<>>, 1),
     Started("noindex", p, <<>>, <<>>, 0),
     NoStart("noindex", p)}

\* a slip: errs = ggerr, which keeps the last failure only
Mut_ErrsOverwritten(es, ggerr) ==
    IF ggerr # NilErr
    THEN IF GetExitCode(Cause(ggerr)) = 1 THEN es ELSE MultiAppend(NilErr, ggerr)
    ELSE es

\* a slip: exit status 1 is recorded like any other failure
Mut_ExitOneIsFailure(es, ggerr) ==
    IF ggerr # NilErr THEN MultiAppend(es, ggerr) ELSE es

\* lines 238-244: errs after the diff of one path returned ggerr
AppendNonIndexedDiffFiles_Errs(es, ggerr) ==
    IF ggerr # NilErr
    THEN IF GetExitCode(Cause(ggerr)) = 1
         THEN es                              \* exit 1 is valid for git diff
         ELSE MultiAppend(es, ggerr)
    ELSE es

\* a slip: O_TRUNC in place of O_APPEND
Mut_AppendTruncates ==
    /\ \E paths \in PathLists :
          /\ Enter([NewCall("AppendNonIndexedDiffFiles", 2, PatchPath)
                      EXCEPT !.paths = paths])
          /\ \/ /\ Return(WithStack(PathError("open")))     \* os.OpenFile failed
                /\ trace' = <<>>
                /\ UNCHANGED <<handles, idx>>
             \/ /\ PatchPath \in exists                     \* no O_CREATE
                /\ IF paths = <<>>
                   THEN /\ Return(WithStack(NilErr))
                        /\ trace' = <<>>
                        /\ idx' = 0
                        /\ handles' = {}                    \* deferred f.Close
                   ELSE /\ \E p \in NoIndexProcesses(paths[1]) :
                              Invoke(TRUE, p)
                        /\ idx' = 1
                        /\ pc' = "noindex"
                        /\ handles' = {"f"}
                        /\ UNCHANGED ret
    /\ fs' = IF pc' = "idle" /\ ret' = WithStack(PathError("open")) THEN fs
             ELSE [fs EXCEPT ![PatchPath] = <<>>]
    /\ UNCHANGED <<pipe, exists, tree, am>>

\* a slip: O_CREATE added to the open, a missing artifact is created
Mut_AppendCreates ==
    /\ \E paths \in PathLists :
          /\ Enter([NewCall("AppendNonIndexedDiffFiles", 2, PatchPath)
                      EXCEPT !.paths = paths])
          /\ \/ /\ Return(WithStack(PathError("open")))     \* os.OpenFile failed
                /\ trace' = <<>>
                /\ UNCHANGED <<handles, idx, exists>>
             \/ /\ exists' = exists \cup {PatchPath}
                /\ IF paths = <<>>
                   THEN /\ Return(WithStack(NilErr))
                        /\ trace' = <<>>
                        /\ idx' = 0
                        /\ handles' = {}
                   ELSE /\ \E p \in NoIndexProcesses(paths[1]) :
                              Invoke(TRUE, p)
                        /\ idx' = 1
                        /\ pc' = "noindex"
                        /\ handles' = {"f"}
                        /\ UNCHANGED ret
    /\ UNCHANGED <<pipe, fs, tree, am>>

AppendNonIndexedDiffFiles_Call ==
    /\ \E paths \in PathLists :
          /\ Enter([NewCall("AppendNonIndexedDiffFiles", 2, PatchPath)
                      EXCEPT !.paths = paths])
          /\ \/ /\ Return(WithStack(PathError("open")))     \* os.OpenFile failed
                /\ trace' = <<>>
                /\ UNCHANGED <<handles, idx>>
             \/ /\ PatchPath \in exists                     \* no O_CREATE
                /\ IF paths = <<>>
                   THEN /\ Return(WithStack(NilErr))
                        /\ trace' = <<>>
                        /\ idx' = 0
                        /\ handles' = {}                    \* deferred f.Close
                   ELSE /\ \E p \in NoIndexProcesses(paths[1]) :
                              Invoke(TRUE, p)
                        /\ idx' = 1
                        /\ pc' = "noindex"
                        /\ handles' = {"f"}
                        /\ UNCHANGED ret
    /\ UNCHANGED <<pipe, fs, exists, tree, am>>

\* a slip: the loop is left at the first failure that is recorded
Mut_BreakOnFailure ==
    /\ pc = "noindex" /\ call.fn = "AppendNonIndexedDiffFiles"
    /\ Over(proc)
    /\ errs' = AppendNonIndexedDiffFiles_Errs(errs, WithStack(JustRunCmd(proc)))
    /\ IF idx < Len(call.paths) /\ errs' = errs
       THEN /\ idx' = idx + 1
            /\ \E p \in NoIndexProcesses(call.paths[idx + 1]) :
                  Invoke(FALSE, p)
            /\ UNCHANGED <<pc, ret, handles>>
       ELSE /\ Return(WithStack(errs'))
            /\ handles' = {}
            /\ idx' = 0
            /\ UNCHANGED trace
    /\ UNCHANGED <<call, pipe, fs, exists, tree, am, pre, ncalls>>

\* a slip: the next turn diffs the path of this turn again
Mut_SamePathAgain ==
    /\ pc = "noindex" /\ call.fn = "AppendNonIndexedDiffFiles"
    /\ Over(proc)
    /\ errs' = AppendNonIndexedDiffFiles_Errs(errs, WithStack(JustRunCmd(proc)))
    /\ IF idx < Len(call.paths)
       THEN /\ idx' = idx + 1
            /\ \E p \in NoIndexProcesses(call.paths[idx]) :
                  Invoke(FALSE, p)
            /\ UNCHANGED <<pc, ret, handles>>
       ELSE /\ Return(WithStack(errs'))
            /\ handles' = {}
            /\ idx' = 0
            /\ UNCHANGED trace
    /\ UNCHANGED <<call, pipe, fs, exists, tree, am, pre, ncalls>>

\* the rest of one turn of the loop, after util.JustRunCmd(cmd) returned
AppendNonIndexedDiffFiles_Returned ==
    /\ pc = "noindex" /\ call.fn = "AppendNonIndexedDiffFiles"
    /\ Over(proc)
    /\ errs' = AppendNonIndexedDiffFiles_Errs(errs, WithStack(JustRunCmd(proc)))
    /\ IF idx < Len(call.paths)
       THEN /\ idx' = idx + 1
            /\ \E p \in NoIndexProcesses(call.paths[idx + 1]) :
                  Invoke(FALSE, p)
            /\ UNCHANGED <<pc, ret, handles>>
       ELSE /\ Return(WithStack(errs'))
            /\ handles' = {}                                \* deferred f.Close
            /\ idx' = 0
            /\ UNCHANGED trace
    /\ UNCHANGED <<call, pipe, fs, exists, tree, am, pre, ncalls>>

(* --------------------------- specification ---------------------------- *)
Next ==
    \/ GitAmStep
    \/ GitAmAbortStep
    \/ GitWriteStep
    \/ GitExit
    \/ GitApplyStep
    \/ CreateDiffBundleFile_Call
    \/ CreateDiffBundleFile_Returned
    \/ CreateDiffPatchFile_Call
    \/ CreateDiffPatchFile_Returned
    \/ CreateDiffBundleFile1_Call
    \/ CreateDiffBundleFile1_Read
    \/ CreateDiffPatchFile1_Call
    \/ CreateDiffPatchFile1_Read
    \/ ApplyDiffPatchFile_Call
    \/ ApplyDiffPatchFile_Returned
    \/ ApplyDiffPatchFile1_Call
    \/ ApplyDiffPatchFile1_Returned
    \/ AppendNonIndexedDiffFiles_Call
    \/ AppendNonIndexedDiffFiles_Returned
    \/ ApplyDiffBundleFile_Call
    \/ ApplyDiffBundleFile_AmReturned
    \/ ApplyDiffBundleFile_AbortReturned
    \/ ApplyDiffBundleFile1_Call
    \/ ApplyDiffBundleFile1_AmReturned
    \/ ApplyDiffBundleFile1_AbortReturned

Spec == Init /\ [][Next]_vars

(* ------------------------------- claims ------------------------------- *)
\* a call of fn has returned
Done(fn) == pc = "idle" /\ call.fn = fn

\* the apply step of the finished bundle applier failed at a patch of the
\* series: git am had started on the series and ended with a failure
PatchFailed ==
    /\ Done("ApplyDiffBundleFile")
    /\ trace[1].cmd = "am" /\ trace[1].code = 128
    /\ IsMbox(pre.fs[BundlePath]) /\ ~pre.am

\* C1 as stated: whenever a patch of the series failed to apply, the tree
\* is, when the call returns, as it was before the call, whatever the abort
\* step's outcome was.
C1_Rollback_Original == PatchFailed => tree = pre.tree

\* C1 amended: whenever a patch of the series failed to apply, the abort
\* command was run as the call's second and last command, and if it ended
\* with status 0 the tree is, when the call returns, as it was before the call.
C1_Rollback ==
    PatchFailed =>
        /\ Len(trace) = 2 /\ trace[2].cmd = "abort"
        /\ trace[2].code = 0 => (tree = pre.tree /\ ~am.active)

\* a series whose second mail failed after the first was applied, undone by
\* a successful abort
C1_Witness ==
    /\ PatchFailed
    /\ Len(pre.fs[BundlePath]) = 2
    /\ ApplyHunks(pre.fs[BundlePath][1].hunks, pre.tree).ok
    /\ Len(trace) = 2 /\ trace[2].code = 0
    /\ tree = pre.tree

\* C2: when the apply step failed and the abort step failed too, the error
\* returned is an aggregated error with exactly two causes: the apply
\* failure first, the abort failure second.
C2_BothCauses ==
    (/\ Done("ApplyDiffBundleFile")
     /\ Len(trace) = 2
     /\ trace[1].code # 0 /\ trace[2].code # 0)
    => /\ Cause(ret).k = "multi"
       /\ Len(Causes(ret)) = 2
       /\ Cause(Causes(ret)[1]) = ExitError("am", BundlePath, trace[1].code)
       /\ Cause(Causes(ret)[2]) = ExitError("abort", "", trace[2].code)

\* the apply stopped at a patch and the abort failed as well
C2_Witness ==
    /\ PatchFailed
    /\ Len(trace) = 2 /\ trace[2].cmd = "abort" /\ trace[2].code = 128
    /\ Len(Causes(ret)) = 2

\* C3: ApplyDiffPatchFile on an artifact of zero length returns success,
\* invokes no external process and leaves the tree unchanged; the state it
\* leaves being the state it found, a repetition gives the same.  (The case
\* is taken with an environment that works: os.Stat reads the file, and git,
\* if it is invoked, can be started.)
C3_EmptyPatch ==
    (/\ Done("ApplyDiffPatchFile")
     /\ PatchPath \in pre.exists /\ pre.fs[PatchPath] = <<>>
     /\ Cause(ret) # PathError("stat")
     /\ \A i \in 1..Len(trace) : trace[i].code # NotStarted)
    => (ret = NilErr /\ trace = <<>> /\ tree = pre.tree /\ fs = pre.fs)

\* C3 restricted to the second definition (lines 250-267), where it holds
C3_EmptyPatch_Second == call.ver = 2 => C3_EmptyPatch

\* what the writer call c makes its process print, first section to last
FullOutput(c) ==
    IF c.fn = "CreateDiffBundleFile" THEN LogRange(c.from, c.to)
    ELSE DiffSeq(Hist(c.from), c.work)

\* C4: CreateDiffBundleFile returns success only if the log process was
\* started and exited with status zero.
C4_SuccessOnlyOnCleanExit ==
    (Done("CreateDiffBundleFile") /\ ret = NilErr)
    => (Len(trace) = 1 /\ trace[1].cmd = "log" /\ trace[1].code = 0)

\* C4 restricted to the second definition (lines 173-186), where it holds
C4_SuccessOnlyOnCleanExit_Second == call.ver = 2 => C4_SuccessOnlyOnCleanExit

\* C5: in every state in which a writer has returned success, the
\* destination file holds the complete output of its process.
C5_Complete ==
    (/\ pc = "idle"
     /\ call.fn \in {"CreateDiffBundleFile", "CreateDiffPatchFile"}
     /\ ret = NilErr)
    => (call.path \in exists /\ fs[call.path] = FullOutput(call))

\* C5 restricted to the second definitions (lines 173-186, 213-223)
C5_Complete_Second == call.ver = 2 => C5_Complete

\* the appender's os.OpenFile succeeded
Opened == Cause(ret) # PathError("open")

\* what the finished appender call has added to the artifact
Appended == SubSeq(fs[PatchPath], Len(pre.fs[PatchPath]) + 1, Len(fs[PatchPath]))

InSeq(x, q) == \E j \in 1..Len(q) : q[j] = x

\* the invocations of the finished appender call that count as failures
Failures == SelectSeq(trace, LAMBDA t : t.code \notin {0, 1})

\* C6: the appender, once it has opened the artifact, invokes the no-index
\* diff exactly once for every path of the list, in list order, whatever the
\* outcomes of the earlier paths; the section of every path whose diff ended
\* with 1 is in the artifact, also after a path that failed.
C6_LoopNeverStops ==
    /\ (pc = "noindex" /\ call.fn = "AppendNonIndexedDiffFiles")
       => /\ Len(trace) = idx /\ idx <= Len(call.paths)
          /\ \A i \in 1..idx :
                trace[i].cmd = "noindex" /\ trace[i].arg = call.paths[i]
    /\ (Done("AppendNonIndexedDiffFiles") /\ Opened)
       => /\ Len(trace) = Len(call.paths)
          /\ \A i \in 1..Len(trace) :
                /\ trace[i].cmd = "noindex" /\ trace[i].arg = call.paths[i]
                /\ trace[i].code = 1 => InSeq(NoIndexSection(call.paths[i]), Appended)

\* three paths, the second failed, the third was diffed and appended
C6_Witness ==
    /\ Done("AppendNonIndexedDiffFiles") /\ Opened
    /\ Len(call.paths) = 3 /\ Len(trace) = 3
    /\ trace[1].code = 1 /\ trace[2].code = 128 /\ trace[3].code = 1
    /\ InSeq(NoIndexSection(call.paths[3]), Appended)

\* C7: once the artifact has been opened, the returned error holds exactly
\* one cause for each path whose diff failed with a status other than 0 or 1,
\* in list order, and it is nil exactly when no path failed that way.
C7_ExactlyTheFailures ==
    (Done("AppendNonIndexedDiffFiles") /\ Opened)
    => /\ Len(Causes(ret)) = Len(Failures)
       /\ \A i \in 1..Len(Failures) :
             Causes(ret)[i] =
                 WithStack(ExitError("noindex", Failures[i].arg, Failures[i].code))
       /\ (ret = NilErr) <=> (Failures = <<>>)

\* two of three paths failed, with a benign path between them
C7_Witness ==
    /\ Done("AppendNonIndexedDiffFiles") /\ Opened
    /\ Len(trace) = 3
    /\ trace[1].code = 128 /\ trace[2].code = 1 /\ trace[3].code = NotStarted
    /\ Len(Causes(ret)) = 2

\* C8: for a path whose diff ended with status 1 the returned error holds no
\* cause, its section is in the artifact, and the next path was diffed.
C8_ExitOneBenign ==
    (Done("AppendNonIndexedDiffFiles") /\ Opened)
    => \A i \in 1..Len(trace) :
          trace[i].code = 1 =>
             /\ \A j \in 1..Len(Causes(ret)) : Cause(Causes(ret)[j]).arg # trace[i].arg
             /\ InSeq(NoIndexSection(trace[i].arg), Appended)
             /\ i < Len(call.paths) =>
                   (Len(trace) > i /\ trace[i + 1].arg = call.paths[i + 1])

\* every path ended with status 1: no error, all sections appended
C8_Witness ==
    /\ Done("AppendNonIndexedDiffFiles") /\ Opened
    /\ Len(trace) = 2 /\ trace[1].code = 1 /\ trace[2].code = 1
    /\ ret = NilErr
    /\ Appended = <<NoIndexSection("u"), NoIndexSection("v")>>

\* C9 as stated: with an empty list the appender returns no error, invokes
\* no process and leaves the artifact as it is, whatever the state of the
\* artifact path.
C9_EmptyList_Original ==
    (Done("AppendNonIndexedDiffFiles") /\ call.paths = <<>>)
    => (ret = NilErr /\ trace = <<>> /\ fs = pre.fs /\ exists = pre.exists)

\* C9 amended: with an empty list the appender invokes no process and leaves
\* the artifact path as it is (it does not create it), and it returns no
\* error unless it could not open the artifact, which it cannot when the
\* artifact does not exist.
C9_EmptyList ==
    (Done("AppendNonIndexedDiffFiles") /\ call.paths = <<>>)
    => /\ trace = <<>> /\ fs = pre.fs /\ exists = pre.exists
       /\ handles = {}
       /\ ret \in {NilErr, WithStack(PathError("open"))}
       /\ PatchPath \notin pre.exists => ret # NilErr

\* the empty list on an existing artifact that is not empty
C9_Witness ==
    /\ Done("AppendNonIndexedDiffFiles") /\ call.paths = <<>>
    /\ PatchPath \in pre.exists /\ pre.fs[PatchPath] # <<>>
    /\ ret = NilErr /\ fs = pre.fs

\* the patch applier ran on the artifact a successful CreateDiffPatchFile
\* call had just made, in a clean checkout of that call's revision, and
\* neither os.Stat nor the start of git apply failed
RoundTripCase ==
    /\ Done("ApplyDiffPatchFile")
    /\ pre.made.fn = "CreateDiffPatchFile"
    /\ pre.tree = Hist(pre.made.from) /\ ~pre.am
    /\ Cause(ret) # PathError("stat")
    /\ \A i \in 1..Len(trace) : trace[i].code # NotStarted

\* C10: CreateDiffPatchFile(dir, f, R) followed by ApplyDiffPatchFile(dir', f)
\* on a clean checkout at R succeeds and leaves dir' with the content of dir,
\* for every set of modifications, the empty one included.
C10_RoundTrip == RoundTripCase => (ret = NilErr /\ tree = pre.made.work)

\* C10 restricted to the second definitions (lines 213-223, 250-267)
C10_RoundTrip_Second ==
    (call.ver = 2 /\ pre.made.ver = 2) => C10_RoundTrip

\* the bundle applier ran on the artifact a successful CreateDiffBundleFile
\* call had just made for a range A..B with B reachable from A, in a clean
\* checkout of A, and git am could be started
BundleRoundTripCase ==
    /\ Done("ApplyDiffBundleFile")
    /\ pre.made.fn = "CreateDiffBundleFile"
    /\ pre.made.from <= pre.made.to
    /\ pre.tree = Hist(pre.made.from) /\ ~pre.am
    /\ trace[1].code # NotStarted

\* C11: CreateDiffBundleFile(dir, f, A, B) followed by ApplyDiffBundleFile(dir', f)
\* on a tree checked out at A returns success and leaves the tree with the
\* content of B, for every A and B with B reachable from A, A = B included.
C11_BundleRoundTrip ==
    BundleRoundTripCase => (ret = NilErr /\ tree = Hist(pre.made.to))

\* C11 restricted to the second definitions (lines 173-186, 189-210) and to
\* a range that holds at least one commit, where it holds
C11_BundleRoundTrip_Second ==
    (call.ver = 2 /\ pre.made.ver = 2 /\ pre.made.from < pre.made.to)
    => C11_BundleRoundTrip

\* C12: a call returns only when the process it started is over and nothing
\* of the process's output is left unread, and a call starts its next process
\* only when the one before it is over.
C12_Synchronous ==
    [][/\ pc' = "idle" => (proc.st # "run" /\ pipe = <<>>)
       /\ (pc # "idle" /\ Len(trace') > Len(trace)) => Over(proc)]_vars

\* C12 restricted to the calls that hand the file to the process as its
\* stdout and wait in util.JustRunCmd (all but the writers of lines 17-135)
C12_Synchronous_Second ==
    [][~ToPipe =>
         /\ pc' = "idle" => (proc.st # "run" /\ pipe = <<>>)
         /\ (pc # "idle" /\ Len(trace') > Len(trace)) => Over(proc)]_vars

\* the calls that open the artifact themselves
Writers == {"CreateDiffBundleFile", "CreateDiffPatchFile"}

\* C13: whenever no call is running, whichever way the calls made so far
\* returned, this subsystem holds no open handle: neither an artifact file
\* nor the read end of a process's output pipe.
C13_NoHandleLeak ==
    /\ pc = "idle" => handles = {}
    /\ "reader" \in handles => (pc = "read" /\ "f" \in handles)

\* a writer that held the file and the pipe returned on a write failure,
\* after a call that had returned before it
C13_Witness ==
    /\ pc = "idle" /\ ncalls = 2
    /\ call.fn \in Writers /\ call.ver = 1
    /\ ret = PathError("write")
    /\ handles = {}

\* the commands of the finished call that a success may rest on: status 0,
\* and status 1 of the appender's no-index diff
BenignExit(t) ==
    \/ t.code = 0
    \/ /\ call.fn = "AppendNonIndexedDiffFiles"
       /\ t.cmd = "noindex" /\ t.code = 1

\* C14: a call returns success only if every process it invoked ended with
\* status 0, but for status 1 of the no-index diff in the appender; so
\* CreateDiffPatchFile, CreateDiffBundleFile and the appliers return a
\* failure for every non-zero exit status, status 1 included.
C14_OnlyAppenderExitOne ==
    (pc = "idle" /\ call.fn # "none" /\ ret = NilErr)
    => \A i \in 1..Len(trace) : BenignExit(trace[i])

\* C14 restricted to the calls that return util.JustRunCmd's result (all
\* but the writers of lines 17-135)
C14_OnlyAppenderExitOne_Second == ~ToPipe => C14_OnlyAppenderExitOne

\* C15: the bundle applier invokes the apply first and once; it invokes the
\* abort, once and after the apply is over, exactly when the apply failed;
\* it returns no error exactly when the apply succeeded; and after a failed
\* apply and a successful abort the error holds one cause, the apply failure.
C15_StateMachine ==
    /\ (call.fn = "ApplyDiffBundleFile" /\ pc = "am")
       => (Len(trace) = 1 /\ trace[1].cmd = "am")
    /\ (call.fn = "ApplyDiffBundleFile" /\ pc = "abort")
       => /\ Len(trace) = 2 /\ trace[1].cmd = "am" /\ trace[2].cmd = "abort"
          /\ trace[1].code \notin {0, Running}
    /\ Done("ApplyDiffBundleFile")
       => /\ Len(trace) \in {1, 2} /\ trace[1].cmd = "am"
          /\ (Len(trace) = 2) <=> (trace[1].code # 0)
          /\ Len(trace) = 2 => trace[2].cmd = "abort"
          /\ (ret = NilErr) <=> (trace[1].code = 0)
          /\ (Len(trace) = 2 /\ trace[2].code = 0)
             => /\ Len(Causes(ret)) = 1
                /\ Cause(Causes(ret)[1]) = ExitError("am", BundlePath, trace[1].code)

\* the apply stopped at a patch of the series, the abort succeeded
C15_Witness ==
    /\ PatchFailed
    /\ Len(trace) = 2 /\ trace[2].cmd = "abort" /\ trace[2].code = 0
    /\ Len(Causes(ret)) = 1

\* the patch applier has run on an artifact that exists and is not empty,
\* and os.Stat could read it
NonEmptyPatchCase ==
    /\ Done("ApplyDiffPatchFile")
    /\ PatchPath \in pre.exists /\ pre.fs[PatchPath] # <<>>
    /\ Cause(ret) # PathError("stat")

\* C16: on an artifact that is not empty ApplyDiffPatchFile invokes git apply
\* once and nothing else, returns a failure exactly when that apply failed
\* (the failure it returns is the apply's), and after a failure the tree is
\* as it was before the call.
C16_SingleApply ==
    NonEmptyPatchCase
    => /\ Len(trace) = 1
       /\ trace[1].cmd = "apply" /\ trace[1].arg = PatchPath
       /\ (ret # NilErr) <=> (trace[1].code # 0)
       /\ ret # NilErr
          => /\ Cause(ret) = ExitError("apply", PatchPath, trace[1].code)
             /\ tree = pre.tree
       /\ am.active = pre.am

\* a patch of two sections, the second of which does not apply: the apply
\* ended with 1 and the tree is as before
C16_Witness ==
    /\ NonEmptyPatchCase /\ call.ver = 2
    /\ Len(pre.fs[PatchPath]) = 2
    /\ ApplyHunks(<<pre.fs[PatchPath][1]>>, pre.tree).ok
    /\ trace[1].code = 1
    /\ tree = pre.tree

IsPrefix(p, q) == Len(p) <= Len(q) /\ SubSeq(q, 1, Len(p)) = p

\* the sections of the paths with index in S, in list order
Sections(S) ==
    LET ix == SelectSeq([i \in 1..Len(call.paths) |-> i], LAMBDA i : i \in S)
    IN [j \in 1..Len(ix) |-> NoIndexSection(call.paths[ix[j]])]

\* C17: during and after a call of the appender the artifact holds what it
\* held before the call, unchanged, followed by the sections the diffs have
\* printed, in list order: the section of every path whose diff ended with 1,
\* of no path whose diff printed nothing, whatever the other outcomes are.
C17_AppendOnly ==
    call.fn = "AppendNonIndexedDiffFiles"
    => /\ IsPrefix(pre.fs[PatchPath], fs[PatchPath])
       /\ fs[BundlePath] = pre.fs[BundlePath]
       /\ \E S \in SUBSET (1..Len(trace)) :
             /\ Appended = Sections(S)
             /\ \A i \in 1..Len(trace) :
                   /\ trace[i].code = 1 => i \in S
                   /\ trace[i].code \in {0, NotStarted} => i \notin S

\* an artifact of one section, extended by the sections of the first and the
\* third path, the second path's diff having failed
C17_Witness ==
    /\ Done("AppendNonIndexedDiffFiles")
    /\ Len(pre.fs[PatchPath]) = 1
    /\ Len(trace) = 3 /\ trace[2].code = 128
    /\ fs[PatchPath] = pre.fs[PatchPath] \o <<NoIndexSection("u"), NoIndexSection("w")>>

\* the running or finished call is a writer that has opened its destination
WriterOpened ==
    /\ call.fn \in Writers
    /\ ~(pc = "idle" /\ Cause(ret) = PathError("open"))

\* C18: from the moment a writer has opened its destination, the destination
\* exists and holds a prefix of the output of this call's process, and so
\* nothing of what it held before, on success and on failure alike.
C18_CreateOrTruncate ==
    WriterOpened
    => /\ call.path \in exists
       /\ IsPrefix(fs[call.path], FullOutput(call))

\* a writer failed on a destination that held an artifact: the destination
\* is left empty
C18_Witness ==
    /\ pc = "idle" /\ WriterOpened
    /\ ret # NilErr
    /\ pre.fs[call.path] # <<>>
    /\ fs[call.path] = <<>>

\* C19: when the appender cannot open the artifact, which is the case when
\* the artifact does not exist, it returns that failure, invokes no process,
\* creates no file and leaves every file as it is.
C19_OpenFailure ==
    /\ (Done("AppendNonIndexedDiffFiles") /\ PatchPath \notin pre.exists)
       => ~Opened
    /\ (Done("AppendNonIndexedDiffFiles") /\ ~Opened)
       => /\ ret = WithStack(PathError("open"))
          /\ trace = <<>>
          /\ fs = pre.fs /\ exists = pre.exists
          /\ handles = {}

\* the appender called with two paths on an artifact that does not exist
C19_Witness ==
    /\ Done("AppendNonIndexedDiffFiles")
    /\ PatchPath \notin pre.exists
    /\ Len(call.paths) = 2
    /\ ret = WithStack(PathError("open")) /\ trace = <<>>
    /\ PatchPath \notin exists

=============================================================================
